---- MODULE Spec2Model ----
(***************************************************************************)
(* A model of the FlowChart component of st-react-flow-pro                 *)
(* (frontend/src/App.tsx, nodes/index.ts, edges/index.ts, main.tsx).       *)
(*                                                                         *)
(* The component is a React function component.  Its state is the pair of  *)
(* useState cells behind useNodesState/useEdgesState, the memo cell of     *)
(* layoutedData, the props (args) last delivered by the host, the passive  *)
(* effects React still has to run for the last commit, the state updates   *)
(* those effects have queued, and the zero-delay timer of the fit-view     *)
(* effect.  One action models one effect body, one event handler, or one   *)
(* step of React's commit cycle.                                           *)
(***************************************************************************)
EXTENDS Integers, Sequences, FiniteSets, TLC

(***************************************************************************)
(* Optional values (a JavaScript value that may be undefined).             *)
(***************************************************************************)
None == <<>>
Some(v) == <<v>>
IsSome(o) == Len(o) = 1
Val(o) == o[1]

\* JavaScript's undefined as the value of a present key ({ border: undefined }).
Undefined == "<undefined>"

Max(S) == CHOOSE m \in S : \A n \in S : n <= m

RECURSIVE SumSeq(_)
SumSeq(s) == IF s = <<>> THEN 0 ELSE Head(s) + SumSeq(Tail(s))

\* The distinct elements of s in order of first occurrence.
RECURSIVE Distinct(_)
Distinct(s) ==
    IF s = <<>> THEN <<>>
    ELSE LET rest == Distinct(SubSeq(s, 1, Len(s) - 1))
             last == s[Len(s)]
         IN  IF \E i \in 1..Len(rest) : rest[i] = last THEN rest
             ELSE Append(rest, last)

(***************************************************************************)
(* Bounds of the model.                                                    *)
(***************************************************************************)
\* Number of distinct positions a user drag can drop a node at.
MaxDrag == 1
\* Longest edge sequence a connect gesture is still tried on.
MaxEdges == 2
\* Longest node sequence the pure functions are called with on their own.
MaxNodes == 2

(***************************************************************************)
(* Graph data: nodes, edges, the built-in initial graph.                   *)
(***************************************************************************)
Pos(x, y) == [x |-> x, y |-> y]

\* A node as the component sees it.  measured is None (no measured object)
\* or Some([width, height]) with each dimension optional; style is None or
\* Some(map from style keys to values).
MkNode(id, type, position, label, measured, style) ==
    [id |-> id, type |-> type, position |-> position,
     data |-> [label |-> label], measured |-> measured, style |-> style]

initialNodes ==
    << MkNode("a", "input", Pos(0, 0), "Start", None, None) >>

initialEdges ==
    << [id |-> "a->c", source |-> "a", target |-> "c", animated |-> TRUE] >>

(***************************************************************************)
(* Theme: useFlowChartStyles.  theme.primaryColor is optional; the empty   *)
(* string is falsy in JavaScript and falls back as well.                   *)
(***************************************************************************)
DefaultPrimaryColor == "#007bff"

primaryColor(theme) ==
    IF IsSome(theme.primaryColor) /\ Val(theme.primaryColor) # ""
    THEN Val(theme.primaryColor)
    ELSE DefaultPrimaryColor

\* The template literal `2px solid ${styles.primaryColor}`.
BorderStyle(color) == "2px solid " \o color

(***************************************************************************)
(* Layout Engine Adapter: getLayoutedElements (App.tsx 50-79).             *)
(*                                                                         *)
(* Dagre itself is a library.  DagreLayout states what Dagre.layout does   *)
(* on the graphs this model feeds it (acyclic, at most two ranks deep):    *)
(* rank = longest path from a source, ranks stacked along the rank axis    *)
(* with ranksep between them, the nodes of a rank placed in insertion      *)
(* order with nodesep between them, every rank centred on the widest one.  *)
(* A node that only an edge names (g.setEdge creates it) has no label and  *)
(* is laid out with Dagre's default size 0 x 0; Dagre writes x and y only  *)
(* into labels that exist.                                                 *)
(***************************************************************************)
DefaultWidth == 100
DefaultHeight == 50
\* Dagre's defaults for the graph label set at App.tsx 56.
NodeSep == 50
RankSep == 50

\* The size fallback gone wrong: a measured dimension counts only when
\* both are measured.
NodeWidthOfFullMeasure(node) ==
    IF /\ IsSome(node.measured)
       /\ IsSome(Val(node.measured).width)
       /\ IsSome(Val(node.measured).height)
    THEN Val(Val(node.measured).width)
    ELSE DefaultWidth

\* node.measured?.width ?? 100
NodeWidth(node) ==
    IF IsSome(node.measured) /\ IsSome(Val(node.measured).width)
    THEN Val(Val(node.measured).width)
    ELSE DefaultWidth

\* node.measured?.height ?? 50
NodeHeight(node) ==
    IF IsSome(node.measured) /\ IsSome(Val(node.measured).height)
    THEN Val(Val(node.measured).height)
    ELSE DefaultHeight

\* The ids g.setNode is called with, in call order.
SetNodeIds(nodes) == [i \in 1..Len(nodes) |-> nodes[i].id]

\* The ids g.setEdge is called with, in call order (source, then target).
SetEdgeIds(edges) ==
    [k \in 1..(2 * Len(edges)) |->
        IF k % 2 = 1 THEN edges[(k + 1) \div 2].source
                     ELSE edges[k \div 2].target]

\* The graph after the two forEach loops: its nodes in insertion order, the
\* label of each node (None for a node only an edge created; a later setNode
\* with the same id replaces the label), and the edges.
BuildGraph(nodes, edges) ==
    LET order == Distinct(SetNodeIds(nodes) \o SetEdgeIds(edges))
        ids   == {order[i] : i \in 1..Len(order)}
        last(v) == Max({i \in 1..Len(nodes) : nodes[i].id = v})
    IN  [order |-> order,
         label |-> [v \in ids |->
                      IF \E i \in 1..Len(nodes) : nodes[i].id = v
                      THEN Some([width  |-> NodeWidth(nodes[last(v)]),
                                 height |-> NodeHeight(nodes[last(v)])])
                      ELSE None],
         edges |-> {<<edges[j].source, edges[j].target>> : j \in 1..Len(edges)}]

\* Longest path from a source to v (self-loops do not constrain ranks).
RECURSIVE Rank(_, _)
Rank(v, E) ==
    LET preds == {e[1] : e \in {f \in E : f[2] = v /\ f[1] # v}}
    IN  IF preds = {} THEN 0 ELSE 1 + Max({Rank(u, E) : u \in preds})

\* Dagre.layout(g) for rankdir TB or LR: for every node with a label, the
\* centre point Dagre writes into it; None for a node without a label.
DagreLayout(g, rankdir) ==
    LET ids == DOMAIN g.label
        \* extent along the rank axis (a) and across it (c)
        sizeA(v) == IF IsSome(g.label[v])
                    THEN (IF rankdir = "LR" THEN Val(g.label[v]).width
                                            ELSE Val(g.label[v]).height)
                    ELSE 0
        sizeC(v) == IF IsSome(g.label[v])
                    THEN (IF rankdir = "LR" THEN Val(g.label[v]).height
                                            ELSE Val(g.label[v]).width)
                    ELSE 0
        rank(v) == Rank(v, g.edges)
        inRank(v) == LET r == rank(v) IN
                     SelectSeq(g.order, LAMBDA u : Rank(u, g.edges) = r)
        rankExtentA(r) == Max({0} \cup {sizeA(u) : u \in {w \in ids : rank(w) = r}})
        rankExtentC(row) ==
            SumSeq([i \in 1..Len(row) |-> sizeC(row[i])]) + NodeSep * (Len(row) - 1)
        widest == Max({rankExtentC(inRank(v)) : v \in ids})
        index(v, row) == CHOOSE i \in 1..Len(row) : row[i] = v
        centreA(v) ==
            SumSeq([r \in 1..rank(v) |-> rankExtentA(r - 1) + RankSep])
              + rankExtentA(rank(v)) \div 2
        centreC(v) ==
            LET row == inRank(v)
                k   == index(v, row)
            IN  (widest - rankExtentC(row)) \div 2
                  + SumSeq([i \in 1..(k - 1) |-> sizeC(row[i]) + NodeSep])
                  + sizeC(v) \div 2
    IN  [v \in ids |->
            IF IsSome(g.label[v])
            THEN Some(IF rankdir = "LR" THEN Pos(centreA(v), centreC(v))
                                        ELSE Pos(centreC(v), centreA(v)))
            ELSE None]

\* g.node(id): the label of id, undefined (None) for an id the graph lacks.
GraphNode(layout, id) == IF id \in DOMAIN layout THEN layout[id] ELSE None

\* getLayoutedElements gone wrong: the positions are read for every node of
\* the graph, not for every input node, so a node that only an edge names
\* (g.node(id) is undefined) throws.
getLayoutedElementsOverGraph(nodes, edges, options) ==
    LET g      == BuildGraph(nodes, edges)
        layout == DagreLayout(g, options.direction)
    IN  IF \E v \in DOMAIN layout : ~IsSome(layout[v])
        THEN [fault |-> TRUE, nodes |-> <<>>, edges |-> <<>>]
        ELSE [fault |-> FALSE,
              nodes |-> [i \in 1..Len(nodes) |->
                           [nodes[i] EXCEPT !.position =
                               Pos(Val(layout[nodes[i].id]).x - NodeWidth(nodes[i]) \div 2,
                                   Val(layout[nodes[i].id]).y - NodeHeight(nodes[i]) \div 2)]],
              edges |-> edges]

\* getLayoutedElements gone wrong: the returned nodes are built anew from
\* id, type, data and the new position, without the spread of the node.
getLayoutedElementsRebuilt(nodes, edges, options) ==
    LET g      == BuildGraph(nodes, edges)
        layout == DagreLayout(g, options.direction)
    IN  [fault |-> FALSE,
         nodes |-> [i \in 1..Len(nodes) |->
                      MkNode(nodes[i].id, nodes[i].type,
                             Pos(Val(layout[nodes[i].id]).x - NodeWidth(nodes[i]) \div 2,
                                 Val(layout[nodes[i].id]).y - NodeHeight(nodes[i]) \div 2),
                             nodes[i].data.label, None, None)],
         edges |-> edges]

\* getLayoutedElements(nodes, edges, options).  Reading position.x of an
\* undefined g.node(node.id) throws: fault is TRUE then.
getLayoutedElements(nodes, edges, options) ==
    LET g      == BuildGraph(nodes, edges)
        layout == DagreLayout(g, options.direction)
        layoutedNodes ==
            [i \in 1..Len(nodes) |->
                LET node     == nodes[i]
                    position == Val(GraphNode(layout, node.id))
                    width    == NodeWidth(node)
                    height   == NodeHeight(node)
                    x        == position.x - width \div 2
                    y        == position.y - height \div 2
                IN  [node EXCEPT !.position = Pos(x, y)]]
    IN  IF \E i \in 1..Len(nodes) : ~IsSome(GraphNode(layout, nodes[i].id))
        THEN [fault |-> TRUE, nodes |-> <<>>, edges |-> <<>>]
        ELSE [fault |-> FALSE, nodes |-> layoutedNodes, edges |-> edges]

(***************************************************************************)
(* Highlight, connect and drag: the state updaters.                        *)
(***************************************************************************)
\* The object spread { ...s, ...t }.
Spread(s, t) ==
    [k \in (DOMAIN s) \cup (DOMAIN t) |-> IF k \in DOMAIN t THEN t[k] ELSE s[k]]

\* The empty object {}.
EmptyObject == [k \in {} |-> Undefined]

\* node.style?.border
StyleBorder(node) ==
    IF IsSome(node.style) /\ "border" \in DOMAIN Val(node.style)
    THEN Val(node.style)["border"]
    ELSE Undefined

\* addBorderToNode gone wrong: the nodes are built anew from id, type, data
\* and style, and the position is left at the origin.
addBorderToFreshNode(prevNodes, nodeId, color) ==
    [i \in 1..Len(prevNodes) |->
        LET node == prevNodes[i]
        IN  [node EXCEPT
               !.position = Pos(0, 0),
               !.style =
                Some(Spread(IF IsSome(node.style) THEN Val(node.style) ELSE EmptyObject,
                            IF node.id = nodeId
                            THEN [border |-> BorderStyle(color)]
                            ELSE [border |-> Undefined]))]]

\* addBorderToNode gone wrong: the border of the node is toggled, taken off
\* when the node already carries it.
addBorderToggle(prevNodes, nodeId, color) ==
    [i \in 1..Len(prevNodes) |->
        LET node == prevNodes[i]
        IN  [node EXCEPT !.style =
                Some(Spread(IF IsSome(node.style) THEN Val(node.style) ELSE EmptyObject,
                            IF node.id = nodeId /\ StyleBorder(node) # BorderStyle(color)
                            THEN [border |-> BorderStyle(color)]
                            ELSE [border |-> Undefined]))]]

\* addBorderToNode gone wrong: the style is replaced, not spread: every key
\* but border is lost.
addBorderReplacingStyle(prevNodes, nodeId, color) ==
    [i \in 1..Len(prevNodes) |->
        LET node == prevNodes[i]
        IN  [node EXCEPT !.style =
                Some(IF node.id = nodeId
                     THEN [border |-> BorderStyle(color)]
                     ELSE [border |-> Undefined])]]

\* The updater addBorderToNode(nodeId) hands to setNodes, for the
\* primaryColor its closure holds.
addBorderToNode(prevNodes, nodeId, color) ==
    [i \in 1..Len(prevNodes) |->
        LET node == prevNodes[i]
        IN  [node EXCEPT !.style =
                Some(Spread(IF IsSome(node.style) THEN Val(node.style) ELSE EmptyObject,
                            IF node.id = nodeId
                            THEN [border |-> BorderStyle(color)]
                            ELSE [border |-> Undefined]))]]

\* The test of the border effect gone wrong: any border on the node counts,
\* whatever its colour.
nodeWithAnyBorder(nodes, borderNodeId, color) ==
    \E i \in 1..Len(nodes) :
        /\ nodes[i].id = borderNodeId
        /\ StyleBorder(nodes[i]) # Undefined

\* nodes.find(...) of the border effect, as a truth value.
nodeWithBorder(nodes, borderNodeId, color) ==
    \E i \in 1..Len(nodes) :
        /\ nodes[i].id = borderNodeId
        /\ StyleBorder(nodes[i]) = BorderStyle(color)

\* addEdge gone wrong: the new edge is put in front.
addEdgeInFront(connection, eds) ==
    IF \E j \in 1..Len(eds) : /\ eds[j].source = connection.source
                              /\ eds[j].target = connection.target
    THEN eds
    ELSE <<[id     |-> "xy-edge__" \o connection.source \o "-" \o connection.target,
            source |-> connection.source,
            target |-> connection.target]>> \o eds

\* getEdgeId of the renderer for a connection without handles.
ConnectionEdgeId(source, target) == "xy-edge__" \o source \o "-" \o target

\* addEdge(connection, eds) of the renderer: a connection without source or
\* target, or one that already exists, returns eds; otherwise the new edge is
\* concatenated at the end.
addEdge(connection, eds) ==
    IF connection.source = "" \/ connection.target = "" THEN eds
    ELSE IF \E j \in 1..Len(eds) : /\ eds[j].source = connection.source
                                   /\ eds[j].target = connection.target
         THEN eds
         ELSE Append(eds, [id     |-> ConnectionEdgeId(connection.source,
                                                        connection.target),
                           source |-> connection.source,
                           target |-> connection.target])

\* applyNodeChanges for one position change (onNodesChange of useNodesState).
applyPositionChange(nds, i, position) ==
    [nds EXCEPT ![i].position = position]

\* The queued updates of one state cell applied in order to its value.  An
\* update is a value (setNodes(args.nodes)) or the highlight updater.
RECURSIVE ApplyUpdates(_, _)
ApplyUpdates(value, queue) ==
    IF queue = <<>> THEN value
    ELSE LET u == Head(queue)
         IN  ApplyUpdates(IF u.kind = "set" THEN u.value
                          ELSE addBorderToNode(value, u.nodeId, u.color),
                          Tail(queue))

(***************************************************************************)
(* What the host can send: args = {nodes?, edges?, borderNodeId?, theme?}. *)
(* Sizes are even, so that width / 2 is an integer.                        *)
(***************************************************************************)
HostNodesPlain ==
    << MkNode("a", "default", Pos(5, 5), "A", None, None),
       MkNode("b", "default", Pos(7, 9), "B",
              Some([width |-> Some(40), height |-> None]),
              Some([background |-> "white"])) >>

HostNodesBordered ==
    << MkNode("a", "default", Pos(5, 5), "A", None,
              Some([border |-> BorderStyle(DefaultPrimaryColor)])),
       MkNode("b", "default", Pos(7, 9), "B", None,
              Some([border |-> BorderStyle(DefaultPrimaryColor)])) >>

\* One edge between two nodes of the payloads and one whose source is no node.
HostEdges ==
    << [id |-> "e1", source |-> "a", target |-> "b", animated |-> FALSE],
       [id |-> "e2", source |-> "x", target |-> "b", animated |-> FALSE] >>

NodePayloads == {HostNodesPlain, HostNodesBordered}
EdgePayloads == {HostEdges}
\* "a" is a node of every node set, "z" of none; the empty string is falsy.
BorderNodeIds == {"a", "z", ""}
PrimaryColors == {"red"}

HostArgs ==
    [nodes        : {None} \cup {Some(n) : n \in NodePayloads},
     edges        : {None} \cup {Some(e) : e \in EdgePayloads},
     borderNodeId : {None} \cup {Some(b) : b \in BorderNodeIds},
     theme        : [primaryColor : {None} \cup {Some(c) : c \in PrimaryColors}]]

NoArgs == [nodes |-> None, edges |-> None, borderNodeId |-> None,
           theme |-> [primaryColor |-> None]]

\* Where a drag can drop a node: positions no payload and no layout uses.
DragPositions == {Pos(1000 + k, 2000 + k) : k \in 1..MaxDrag}

(***************************************************************************)
(* The mounted component.                                                  *)
(***************************************************************************)
VARIABLES
    build,            \* "dev" or "prod": React.StrictMode replays effects in dev
    phase,            \* "unmounted", "mounted", or "crashed" (a render threw)
    args,             \* the props.args of the last render
    nodes,            \* useNodesState cell
    edges,            \* useEdgesState cell
    layoutedData,     \* the useMemo cell of layoutedData
    pending,          \* passive effects of the last commit not yet run
    replayDue,        \* StrictMode still has to replay the mount effects
    nodesQueue,       \* setNodes calls not yet rendered
    edgesQueue,       \* setEdges calls not yet rendered
    timeoutId,        \* the timeout of the fit-view effect's last run:
                      \* "none", "pending", "fired" or "cleared"
    timers,           \* number of pending fit-view timeouts
    frameHeightCalls, \* Streamlit.setFrameHeight() calls since the mount
    fitViewDisposed,  \* fitView() has run while the component was not mounted
    hostPushed        \* the host has sent new args since the mount

vars == <<build, phase, args, nodes, edges, layoutedData, pending, replayDue,
          nodesQueue, edgesQueue, timeoutId, timers, frameHeightCalls,
          fitViewDisposed, hostPushed>>

\* The useEffect calls of FlowChart in declaration order, which is the
\* order React runs them in.
Effects == <<"frameHeight", "propsUpdate", "border", "fitView">>
AllEffects == {Effects[i] : i \in 1..Len(Effects)}

\* e is the next effect React runs.
NextEffect(e) ==
    /\ e \in pending
    /\ \A i, j \in 1..Len(Effects) :
          (Effects[j] = e /\ i < j) => Effects[i] \notin pending

\* Nothing is left to run or render.
Quiescent ==
    /\ pending = {}
    /\ ~replayDue
    /\ nodesQueue = <<>>
    /\ edgesQueue = <<>>

\* initialData (App.tsx 133-136).
initialData(a) ==
    [nodes |-> IF IsSome(a.nodes) THEN Val(a.nodes) ELSE initialNodes,
     edges |-> IF IsSome(a.edges) THEN Val(a.edges) ELSE initialEdges]

\* layoutedData (App.tsx 139-146).
computeLayoutedData(a) ==
    getLayoutedElements(initialData(a).nodes, initialData(a).edges,
                        [direction |-> "TB"])

\* The cleanup of the fit-view effect gone wrong: nothing is cleared.
clearNothing(pendingTimers, id) == pendingTimers

\* clearTimeout(timeoutId): the number of pending timeouts afterwards.
\* Clearing a timeout that has fired changes nothing.
clearTimeout(pendingTimers, id) ==
    IF id = "pending" THEN pendingTimers - 1 ELSE pendingTimers

\* The state of the timeout id after a cleanup that left `after` of the
\* `before` pending timeouts.
AfterCleanup(id, before, after) == IF after < before THEN "cleared" ELSE id

\* The host bridge deserialises every message it gets, so an array that is
\* present in new args is a new array; an absent field is undefined both
\* times.  A dependency [a.nodes] or [a.edges] differs unless absent in both.
DepChanged(old, new) == IsSome(old) \/ IsSome(new)

Init ==
    /\ build \in {"dev", "prod"}
    /\ phase = "unmounted"
    /\ args = NoArgs
    /\ nodes = <<>>
    /\ edges = <<>>
    /\ layoutedData = [fault |-> FALSE, nodes |-> <<>>, edges |-> <<>>]
    /\ pending = {}
    /\ replayDue = FALSE
    /\ nodesQueue = <<>>
    /\ edgesQueue = <<>>
    /\ timeoutId = "none"
    /\ timers = 0
    /\ frameHeightCalls = 0
    /\ fitViewDisposed = FALSE
    /\ hostPushed = FALSE

\* A render threw: the error boundary of withStreamlitConnection replaces
\* the component, whose effect cleanups run.
Crash ==
    /\ phase' = "crashed"
    /\ nodes' = <<>>
    /\ edges' = <<>>
    /\ pending' = {}
    /\ replayDue' = FALSE
    /\ nodesQueue' = <<>>
    /\ edgesQueue' = <<>>
    /\ timers' = clearTimeout(timers, timeoutId)
    /\ timeoutId' = AfterCleanup(timeoutId, timers, timers')

\* The first render (App.tsx 128-155): the memo cells are computed and the
\* state cells take layoutedData as their initial value; every effect is
\* due after the commit.
Mount(a) ==
    /\ phase = "unmounted"
    /\ args' = a
    /\ layoutedData' = computeLayoutedData(a)
    /\ frameHeightCalls' = 0
    /\ hostPushed' = FALSE
    /\ IF layoutedData'.fault
       THEN Crash
       ELSE /\ phase' = "mounted"
            /\ nodes' = layoutedData'.nodes
            /\ edges' = layoutedData'.edges
            /\ pending' = AllEffects
            /\ replayDue' = (build = "dev")
            /\ nodesQueue' = <<>>
            /\ edgesQueue' = <<>>
            /\ UNCHANGED <<timeoutId, timers>>
    /\ UNCHANGED <<build, fitViewDisposed>>

\* useEffect(() => { Streamlit.setFrameHeight(); }, [])  (App.tsx 158-160).
FrameHeightEffect ==
    /\ phase = "mounted"
    /\ NextEffect("frameHeight")
    /\ frameHeightCalls' = frameHeightCalls + 1
    /\ pending' = pending \ {"frameHeight"}
    /\ UNCHANGED <<build, phase, args, nodes, edges, layoutedData, replayDue,
                   nodesQueue, edgesQueue, timeoutId, timers, fitViewDisposed,
                   hostPushed>>

\* The props-update effect gone wrong: the state is set from layoutedData,
\* not from args.
PropsUpdateEffectLayouted ==
    /\ phase = "mounted"
    /\ NextEffect("propsUpdate")
    /\ nodesQueue' = IF IsSome(args.nodes)
                     THEN Append(nodesQueue, [kind |-> "set", value |-> layoutedData.nodes])
                     ELSE nodesQueue
    /\ edgesQueue' = IF IsSome(args.edges)
                     THEN Append(edgesQueue, [kind |-> "set", value |-> layoutedData.edges])
                     ELSE edgesQueue
    /\ pending' = pending \ {"propsUpdate"}
    /\ UNCHANGED <<build, phase, args, nodes, edges, layoutedData, replayDue,
                   timeoutId, timers, frameHeightCalls, fitViewDisposed,
                   hostPushed>>

\* The props-update effect (App.tsx 163-170).  An array is truthy even when
\* empty.
PropsUpdateEffect ==
    /\ phase = "mounted"
    /\ NextEffect("propsUpdate")
    /\ nodesQueue' = IF IsSome(args.nodes)
                     THEN Append(nodesQueue, [kind |-> "set", value |-> Val(args.nodes)])
                     ELSE nodesQueue
    /\ edgesQueue' = IF IsSome(args.edges)
                     THEN Append(edgesQueue, [kind |-> "set", value |-> Val(args.edges)])
                     ELSE edgesQueue
    /\ pending' = pending \ {"propsUpdate"}
    /\ UNCHANGED <<build, phase, args, nodes, edges, layoutedData, replayDue,
                   timeoutId, timers, frameHeightCalls, fitViewDisposed,
                   hostPushed>>

\* The border effect gone wrong: only an absent borderNodeId returns early,
\* the empty string is taken for an id.
BorderEffectForEmptyId ==
    /\ phase = "mounted"
    /\ NextEffect("border")
    /\ nodesQueue' =
          IF ~IsSome(args.borderNodeId)
          THEN nodesQueue
          ELSE IF nodeWithBorder(nodes, Val(args.borderNodeId),
                                 primaryColor(args.theme))
               THEN nodesQueue
               ELSE Append(nodesQueue,
                           [kind   |-> "border",
                            nodeId |-> Val(args.borderNodeId),
                            color  |-> primaryColor(args.theme)])
    /\ pending' = pending \ {"border"}
    /\ UNCHANGED <<build, phase, args, nodes, edges, layoutedData, replayDue,
                   edgesQueue, timeoutId, timers, frameHeightCalls,
                   fitViewDisposed, hostPushed>>

\* The border effect (App.tsx 191-202).  !args?.borderNodeId holds for an
\* absent id and for the empty string.  nodes is the value of the render
\* the effect belongs to.
BorderEffect ==
    /\ phase = "mounted"
    /\ NextEffect("border")
    /\ nodesQueue' =
          IF ~IsSome(args.borderNodeId) \/ Val(args.borderNodeId) = ""
          THEN nodesQueue
          ELSE IF nodeWithBorder(nodes, Val(args.borderNodeId),
                                 primaryColor(args.theme))
               THEN nodesQueue
               ELSE Append(nodesQueue,
                           [kind   |-> "border",
                            nodeId |-> Val(args.borderNodeId),
                            color  |-> primaryColor(args.theme)])
    /\ pending' = pending \ {"border"}
    /\ UNCHANGED <<build, phase, args, nodes, edges, layoutedData, replayDue,
                   edgesQueue, timeoutId, timers, frameHeightCalls,
                   fitViewDisposed, hostPushed>>

\* The fit-view effect gone wrong: it returns no cleanup, so a re-run
\* schedules a new timeout and the earlier one stays pending.
FitViewEffectWithoutCleanup ==
    /\ phase = "mounted"
    /\ NextEffect("fitView")
    /\ timers' = timers + 1
    /\ timeoutId' = "pending"
    /\ pending' = pending \ {"fitView"}
    /\ UNCHANGED <<build, phase, args, nodes, edges, layoutedData, replayDue,
                   nodesQueue, edgesQueue, frameHeightCalls, fitViewDisposed,
                   hostPushed>>

\* The fit-view effect (App.tsx 213-218): the cleanup of the previous run,
\* if there is one, then setTimeout(..., 0).
FitViewEffect ==
    /\ phase = "mounted"
    /\ NextEffect("fitView")
    /\ timers' = clearTimeout(timers, timeoutId) + 1
    /\ timeoutId' = "pending"
    /\ pending' = pending \ {"fitView"}
    /\ UNCHANGED <<build, phase, args, nodes, edges, layoutedData, replayDue,
                   nodesQueue, edgesQueue, frameHeightCalls, fitViewDisposed,
                   hostPushed>>

\* React.StrictMode (main.tsx 10-14) in a development build: after the
\* mount effects have run, their cleanups run and every effect runs again.
StrictReplay ==
    /\ phase = "mounted"
    /\ replayDue
    /\ pending = {}
    /\ replayDue' = FALSE
    /\ timers' = clearTimeout(timers, timeoutId)
    /\ timeoutId' = AfterCleanup(timeoutId, timers, timers')
    /\ pending' = AllEffects
    /\ UNCHANGED <<build, phase, args, nodes, edges, layoutedData, nodesQueue,
                   edgesQueue, frameHeightCalls, fitViewDisposed, hostPushed>>

\* React renders the queued state updates and commits.  Every setNodes call
\* yields a new array, so the border effect, which depends on nodes, is due.
Render ==
    /\ phase = "mounted"
    /\ pending = {}
    /\ ~replayDue
    /\ nodesQueue # <<>> \/ edgesQueue # <<>>
    /\ nodes' = ApplyUpdates(nodes, nodesQueue)
    /\ edges' = ApplyUpdates(edges, edgesQueue)
    /\ nodesQueue' = <<>>
    /\ edgesQueue' = <<>>
    /\ pending' = IF nodesQueue # <<>> THEN {"border"} ELSE {}
    /\ UNCHANGED <<build, phase, args, layoutedData, replayDue, timeoutId,
                   timers, frameHeightCalls, fitViewDisposed, hostPushed>>

\* The 0 ms timeout of the fit-view effect is not pending.  The handlers of a
\* host message and of a user gesture read and write nothing the timeout
\* does, so they are taken after it: the other order reaches the same
\* states.
TimeoutSettled == timeoutId # "pending"

\* The host sends new args: a render with new props (App.tsx 128-155) and
\* the commit that decides which effects are due.
Push(a) ==
    /\ phase = "mounted"
    /\ Quiescent
    /\ TimeoutSettled
    /\ args' = a
    /\ hostPushed' = TRUE
    /\ LET propsChanged == \/ DepChanged(args.nodes, a.nodes)
                           \/ DepChanged(args.edges, a.edges)
           borderChanged == \/ args.borderNodeId # a.borderNodeId
                            \/ primaryColor(args.theme) # primaryColor(a.theme)
       IN  /\ layoutedData' = IF propsChanged THEN computeLayoutedData(a)
                              ELSE layoutedData
           /\ IF layoutedData'.fault
              THEN Crash
              ELSE /\ pending' = (IF propsChanged THEN {"propsUpdate"} ELSE {})
                                   \cup (IF borderChanged THEN {"border"} ELSE {})
                   /\ UNCHANGED <<phase, nodes, edges, replayDue, nodesQueue,
                                  edgesQueue, timeoutId, timers>>
    /\ UNCHANGED <<build, frameHeightCalls, fitViewDisposed>>

\* The user drops node i at position p: onNodesChange (App.tsx 149, 228).
Drag(i, p) ==
    /\ phase = "mounted"
    /\ Quiescent
    /\ TimeoutSettled
    /\ i \in 1..Len(nodes)
    /\ nodes' = applyPositionChange(nodes, i, p)
    /\ pending' = {"border"}
    /\ UNCHANGED <<build, phase, args, edges, layoutedData, replayDue,
                   nodesQueue, edgesQueue, timeoutId, timers, frameHeightCalls,
                   fitViewDisposed, hostPushed>>

\* The user drags from a handle of node source to a handle of another node
\* target: onConnect (App.tsx 205-210).
Connect(source, target) ==
    /\ phase = "mounted"
    /\ Quiescent
    /\ TimeoutSettled
    /\ source # target
    /\ Len(edges) < MaxEdges
    /\ edges' = addEdge([source |-> source, target |-> target], edges)
    /\ UNCHANGED <<build, phase, args, nodes, layoutedData, pending, replayDue,
                   nodesQueue, edgesQueue, timeoutId, timers, frameHeightCalls,
                   fitViewDisposed, hostPushed>>

\* The renderer hands out a new fitView: the dependency of the fit-view
\* effect (App.tsx 218) changed, so the effect is due again.
FitViewChange ==
    /\ phase = "mounted"
    /\ Quiescent
    /\ pending' = {"fitView"}
    /\ UNCHANGED <<build, phase, args, nodes, edges, layoutedData, replayDue,
                   nodesQueue, edgesQueue, timeoutId, timers, frameHeightCalls,
                   fitViewDisposed, hostPushed>>

\* A pending timeout fires and calls fitView() (App.tsx 214-216): the
\* effect's own one, or one an earlier run left behind.
FitViewFire ==
    /\ timers > 0
    /\ phase = "mounted" => pending = {}
    /\ \E own \in {b \in BOOLEAN :
                     IF b THEN timeoutId = "pending"
                          ELSE timers > (IF timeoutId = "pending" THEN 1 ELSE 0)} :
          timeoutId' = IF own THEN "fired" ELSE timeoutId
    /\ timers' = timers - 1
    /\ fitViewDisposed' = (fitViewDisposed \/ phase # "mounted")
    /\ UNCHANGED <<build, phase, args, nodes, edges, layoutedData, pending,
                   replayDue, nodesQueue, edgesQueue, frameHeightCalls,
                   hostPushed>>

\* The component unmounts: the cleanup of the fit-view effect runs
\* (App.tsx 217) and the state cells are gone.
Unmount ==
    /\ phase = "mounted"
    /\ pending = {}
    /\ ~replayDue
    /\ phase' = "unmounted"
    /\ timers' = clearTimeout(timers, timeoutId)
    /\ timeoutId' = AfterCleanup(timeoutId, timers, timers')
    /\ nodes' = <<>>
    /\ edges' = <<>>
    /\ nodesQueue' = <<>>
    /\ edgesQueue' = <<>>
    /\ args' = NoArgs
    /\ layoutedData' = [fault |-> FALSE, nodes |-> <<>>, edges |-> <<>>]
    /\ frameHeightCalls' = 0
    /\ hostPushed' = FALSE
    /\ UNCHANGED <<build, pending, replayDue, fitViewDisposed>>

NodeIds == {nodes[i].id : i \in 1..Len(nodes)}

Next ==
    \/ \E a \in HostArgs : Mount(a)
    \/ FrameHeightEffect
    \/ PropsUpdateEffect
    \/ BorderEffect
    \/ FitViewEffect
    \/ StrictReplay
    \/ Render
    \/ \E a \in HostArgs : Push(a)
    \/ \E i \in 1..Len(nodes), p \in DragPositions : Drag(i, p)
    \/ \E source \in NodeIds, target \in NodeIds : Connect(source, target)
    \/ FitViewChange
    \/ FitViewFire
    \/ Unmount

Spec == Init /\ [][Next]_vars

\* React runs the effects that are due and renders the updates that are
\* queued; the environment (host, user, timers) is free to do nothing.
Reconcile ==
    \/ FrameHeightEffect
    \/ PropsUpdateEffect
    \/ BorderEffect
    \/ FitViewEffect
    \/ StrictReplay
    \/ Render

FairSpec == Spec /\ WF_vars(Reconcile)

(***************************************************************************)
(* The two pure functions of App.tsx called on their own, outside a        *)
(* mounted component: nodes holds the node argument (and the result of the *)
(* highlight updater), edges the edge argument of the last layout call and *)
(* layoutedData its result.                                                *)
(***************************************************************************)
\* The ids of the nodes of an argument, by place.
InputIds == <<"a", "b", "c">>

\* What a node argument has for measured and style.  measured: absent, one
\* dimension, the other, both.  style: absent, or a border and another key.
\* Neither function reads what the other does, so they are paired, not
\* multiplied.
MeasuredAndStyle ==
    {<<None, None>>,
     <<Some([width |-> Some(40), height |-> None]),
       Some([background |-> "white", border |-> BorderStyle("red")])>>,
     <<Some([width |-> None, height |-> Some(20)]), None>>,
     <<Some([width |-> Some(40), height |-> Some(20)]),
       Some([background |-> "white", border |-> BorderStyle("red")])>>}

\* The node arguments: up to MaxNodes nodes with distinct ids.
NodeInputs ==
    UNION {{[k \in 1..n |-> MkNode(InputIds[k], "default", Pos(5, 9), "N",
                                   f[k][1], f[k][2])] :
               f \in [1..n -> MeasuredAndStyle]} :
           n \in 0..MaxNodes}

\* The edge arguments: none, the edge to the missing node c, and the two
\* edges into b, one of them from the missing node x.
EdgeInputs == {<<>>, initialEdges, HostEdges}

Directions == {"TB", "LR"}

\* The ids the highlight is asked for: the second node, and no node.
HighlightIds == {"b", "z"}

CallInit ==
    /\ build = "prod"
    /\ phase = "unmounted"
    /\ args = NoArgs
    /\ nodes \in NodeInputs
    /\ edges = <<>>
    /\ layoutedData = [fault |-> FALSE, nodes |-> <<>>, edges |-> <<>>]
    /\ pending = {}
    /\ replayDue = FALSE
    /\ nodesQueue = <<>>
    /\ edgesQueue = <<>>
    /\ timeoutId = "none"
    /\ timers = 0
    /\ frameHeightCalls = 0
    /\ fitViewDisposed = FALSE
    /\ hostPushed = FALSE

\* The call gone wrong: one graph is kept for all calls, so it still holds
\* the edges of the call before.
getLayoutedElementsCallOnLastGraph(e, direction) ==
    /\ edges' = e
    /\ layoutedData' =
          [getLayoutedElements(nodes, layoutedData.edges \o e,
                               [direction |-> direction])
             EXCEPT !.edges = e]
    /\ UNCHANGED <<build, phase, args, nodes, pending, replayDue, nodesQueue,
                   edgesQueue, timeoutId, timers, frameHeightCalls,
                   fitViewDisposed, hostPushed>>

\* A call getLayoutedElements(nodes, e, { direction }) (App.tsx 50-79): the
\* graph g is new in every call (App.tsx 55), so nothing but the arguments
\* is read.
getLayoutedElementsCall(e, direction) ==
    /\ edges' = e
    /\ layoutedData' = getLayoutedElements(nodes, e, [direction |-> direction])
    /\ UNCHANGED <<build, phase, args, nodes, pending, replayDue, nodesQueue,
                   edgesQueue, timeoutId, timers, frameHeightCalls,
                   fitViewDisposed, hostPushed>>

\* The updater of addBorderToNode(nodeId) applied to nodes (App.tsx 173-188).
addBorderToNodeCall(nodeId, color) ==
    /\ nodes' = addBorderToNode(nodes, nodeId, color)
    /\ UNCHANGED <<build, phase, args, edges, layoutedData, pending, replayDue,
                   nodesQueue, edgesQueue, timeoutId, timers, frameHeightCalls,
                   fitViewDisposed, hostPushed>>

CallNext ==
    \/ \E e \in EdgeInputs, direction \in Directions :
          getLayoutedElementsCall(e, direction)
    \/ \E nodeId \in HighlightIds : addBorderToNodeCall(nodeId, "red")

CallSpec == CallInit /\ [][CallNext]_vars

(***************************************************************************)
(* Helpers of the properties.                                              *)
(***************************************************************************)
Mounted == phase = "mounted"

Positions(ns) == [i \in 1..Len(ns) |-> ns[i].position]

\* Identity, type and payload of every node: what neither layout, nor a
\* drag, nor the highlight touches.
CoreFields(ns) ==
    [i \in 1..Len(ns) |-> [id |-> ns[i].id, type |-> ns[i].type, data |-> ns[i].data]]

IsPrefix(s, t) == Len(s) <= Len(t) /\ SubSeq(t, 1, Len(s)) = s

\* The style of a node without its border entry.
NonBorderStyle(node) ==
    LET style == IF IsSome(node.style) THEN Val(node.style) ELSE EmptyObject
    IN  [k \in (DOMAIN style) \ {"border"} |-> style[k]]

\* Nodes n and m agree on everything but the border entry of the style.
SameButBorder(n, m) ==
    /\ n.id = m.id
    /\ n.type = m.type
    /\ n.position = m.position
    /\ n.data = m.data
    /\ n.measured = m.measured
    /\ NonBorderStyle(n) = NonBorderStyle(m)

HasSet(queue) == \E k \in 1..Len(queue) : queue[k].kind = "set"
HasBorderUpdate(queue) == \E k \in 1..Len(queue) : queue[k].kind = "border"

NoneDragged == \A i \in 1..Len(nodes) : nodes[i].position \notin DragPositions

HighlightStyle == BorderStyle(primaryColor(args.theme))

(***************************************************************************)
(* C1.  The highlight reconciliation converges: whatever the node set and  *)
(* the requested borderNodeId, React running the due effects and renders   *)
(* always reaches a state with nothing left to run or render.              *)
(* Checked under FairSpec.                                                 *)
(***************************************************************************)
C1_HighlightConverges == []<>Quiescent

(***************************************************************************)
(* C2.  Highlight exclusivity: once the reconciliation has run for a       *)
(* borderNodeId X that is in the node set, no node other than X carries    *)
(* the highlight border style.                                             *)
(***************************************************************************)
C2_HighlightExclusive ==
    (/\ Mounted
     /\ Quiescent
     /\ IsSome(args.borderNodeId)
     /\ Val(args.borderNodeId) \in NodeIds)
    => \A i \in 1..Len(nodes) :
          nodes[i].id # Val(args.borderNodeId)
             => StyleBorder(nodes[i]) # HighlightStyle

(***************************************************************************)
(* C3.  The Node state with which the controller enters Ready (the mount   *)
(* effects have run and been rendered, the host has pushed nothing and the *)
(* user has dragged nothing) carries the positions the layout computed.    *)
(***************************************************************************)
C3_ReadyCarriesLayout ==
    (Mounted /\ Quiescent /\ ~hostPushed /\ NoneDragged)
    => Positions(nodes) = Positions(layoutedData.nodes)

(***************************************************************************)
(* C4.  Whenever the last payload has no nodes, the Node state is the      *)
(* built-in initial nodes; whenever it has no edges, the Edge state starts *)
(* with the built-in initial edges (a connect gesture appends to them).    *)
(***************************************************************************)
C4_AbsentFieldsFallBack ==
    (Mounted /\ Quiescent)
    => /\ ~IsSome(args.nodes) => CoreFields(nodes) = CoreFields(initialNodes)
       /\ ~IsSome(args.edges) => IsPrefix(initialEdges, edges)

(***************************************************************************)
(* C5.  In Ready, the render that follows a host push of nodes replaces    *)
(* the Node state by exactly the pushed sequence, and a push of edges      *)
(* replaces the Edge state by exactly the pushed edges: nothing of the     *)
(* earlier state (dragged positions, connected edges) survives and the     *)
(* layout is not applied.                                                  *)
(* C5_PushReplacesExactly is the claim as written.                         *)
(***************************************************************************)
C5_PushReplacesExactly ==
    [][(Render /\ hostPushed)
       => /\ HasSet(nodesQueue) => nodes' = Val(args.nodes)
          /\ HasSet(edgesQueue) => edges' = Val(args.edges)]_vars

(***************************************************************************)
(* C5 as amended.  The same, except that the border entry of each style is *)
(* as the highlight sets it when the same render applies a highlight       *)
(* update: every other field of every node, the positions among them, is   *)
(* exactly as pushed, and without a highlight update the Node state is the *)
(* pushed sequence itself.  Whenever the pushed nodes have been rendered   *)
(* the Node state has the pushed ids in the pushed order, each node at its *)
(* pushed position unless the user has dragged it since.                   *)
(***************************************************************************)
C5_PushReplacesButBorder ==
    /\ [][(Render /\ hostPushed)
          => /\ HasSet(nodesQueue)
                => /\ Len(nodes') = Len(Val(args.nodes))
                   /\ \A i \in 1..Len(nodes') :
                         SameButBorder(nodes'[i], Val(args.nodes)[i])
                   /\ ~HasBorderUpdate(nodesQueue) => nodes' = Val(args.nodes)
             /\ HasSet(edgesQueue) => edges' = Val(args.edges)]_vars
    /\ [](  (Mounted /\ Quiescent /\ hostPushed /\ IsSome(args.nodes))
            => /\ CoreFields(nodes) = CoreFields(Val(args.nodes))
               /\ \A i \in 1..Len(nodes) :
                     \/ nodes[i].position = Val(args.nodes)[i].position
                     \/ nodes[i].position \in DragPositions)

\* A push has replaced nodes and edges, and the nodes are where the host put
\* them, which is not where the layout puts them.
C5_Witness ==
    /\ Mounted
    /\ Quiescent
    /\ hostPushed
    /\ IsSome(args.nodes)
    /\ IsSome(args.edges)
    /\ nodes = Val(args.nodes)
    /\ edges = Val(args.edges)
    /\ Positions(nodes) # Positions(layoutedData.nodes)

(***************************************************************************)
(* C6.  fitView never runs while the component is not mounted: a timeout   *)
(* still pending at unmount is cancelled and never fires.                  *)
(***************************************************************************)
C6_NoFitViewAfterUnmount == ~fitViewDisposed

\* The component unmounted while the timeout was pending, and the cleanup
\* cancelled it.
C6_Witness ==
    /\ phase = "unmounted"
    /\ timeoutId = "cleared"
    /\ timers = 0

(***************************************************************************)
(* C7.  A connect gesture source -> target between two nodes that no edge  *)
(* connects in that direction appends exactly one edge with that source    *)
(* and target, leaves the earlier edges and their order unchanged, and     *)
(* leaves the Node state unchanged.                                        *)
(***************************************************************************)
C7_ConnectAppendsOneEdge ==
    [][\A source \in NodeIds, target \in NodeIds :
          (/\ Connect(source, target)
           /\ ~\E j \in 1..Len(edges) : /\ edges[j].source = source
                                        /\ edges[j].target = target)
          => /\ Len(edges') = Len(edges) + 1
             /\ SubSeq(edges', 1, Len(edges)) = edges
             /\ edges'[Len(edges')].source = source
             /\ edges'[Len(edges')].target = target
             /\ nodes' = nodes]_vars

\* Nodes a and b exist and the edge a -> b of a connect gesture is the last
\* edge, after the edges that were there before.
C7_Witness ==
    /\ Mounted
    /\ {"a", "b"} \subseteq NodeIds
    /\ Len(edges) > 1
    /\ edges[Len(edges)].id = ConnectionEdgeId("a", "b")
    /\ edges[Len(edges)].source = "a"
    /\ edges[Len(edges)].target = "b"

(***************************************************************************)
(* C8.  No render faults in the layout, although payload and default edges *)
(* name ids that are no nodes: layoutedData holds one node per input node, *)
(* same ids, same order.  Without host nodes and edges the graph is one    *)
(* node (a, input, Start) and one animated edge a -> c.                    *)
(***************************************************************************)
C8_DefaultGraphAndDanglingEdges ==
    /\ phase # "crashed"
    /\ Mounted
       => /\ ~layoutedData.fault
          /\ CoreFields(layoutedData.nodes) = CoreFields(initialData(args).nodes)
          /\ \A i \in 1..Len(layoutedData.nodes) :
                /\ layoutedData.nodes[i].position.x \in Int
                /\ layoutedData.nodes[i].position.y \in Int
    /\ (Mounted /\ ~IsSome(args.nodes) /\ ~IsSome(args.edges))
       => /\ Len(layoutedData.nodes) = 1
          /\ layoutedData.nodes[1].id = "a"
          /\ layoutedData.nodes[1].type = "input"
          /\ layoutedData.nodes[1].data = [label |-> "Start"]
          /\ layoutedData.edges =
                <<[id |-> "a->c", source |-> "a", target |-> "c", animated |-> TRUE]>>
    /\ (Mounted /\ ~hostPushed /\ ~IsSome(args.nodes) /\ ~IsSome(args.edges))
       => /\ Len(nodes) = 1
          /\ nodes[1].id = "a"
          /\ nodes[1].type = "input"
          /\ nodes[1].data = [label |-> "Start"]
          /\ Len(edges) >= 1
          /\ edges[1] = [id |-> "a->c", source |-> "a", target |-> "c", animated |-> TRUE]

\* The component is mounted on the default graph, whose edge names the
\* missing node c, and node a has its position from the layout.
C8_Witness ==
    /\ Mounted
    /\ ~IsSome(args.nodes)
    /\ ~IsSome(args.edges)
    /\ \A i \in 1..Len(layoutedData.nodes) : layoutedData.nodes[i].id # "c"
    /\ layoutedData.edges[1].target = "c"
    /\ layoutedData.nodes[1].position = Pos(0, 0)
    /\ nodes[1].position = Pos(0, 0)

(***************************************************************************)
(* C9.  A drag sets the position of the dragged node and of no other, and  *)
(* recomputes no layout.  No later step moves a node, a connect gesture,   *)
(* a highlight, a change of theme and a fit-view among them, except a new  *)
(* drag and the render of a node set the host has pushed.                  *)
(***************************************************************************)
C9_DraggedPositionsStay ==
    [][/\ \A i \in 1..Len(nodes), p \in DragPositions :
             Drag(i, p)
             => /\ Len(nodes') = Len(nodes)
                /\ nodes'[i].position = p
                /\ \A j \in 1..Len(nodes) : j # i => nodes'[j] = nodes[j]
                /\ layoutedData' = layoutedData
       /\ (/\ Mounted
           /\ phase' = "mounted"
           /\ ~HasSet(nodesQueue)
           /\ ~\E i \in 1..Len(nodes), p \in DragPositions : Drag(i, p))
          => Positions(nodes') = Positions(nodes)]_vars

\* A dragged node is still where it was dropped after a change of theme, a
\* highlight in the new colour, a connect gesture and a fit-view.
C9_Witness ==
    /\ Mounted
    /\ Quiescent
    /\ timeoutId = "fired"
    /\ \E i \in 1..Len(nodes) :
          /\ nodes[i].position \in DragPositions
          /\ StyleBorder(nodes[i]) = BorderStyle("red")
    /\ \E j \in 1..Len(edges) : edges[j].id = ConnectionEdgeId("b", "a")

(***************************************************************************)
(* C10.  Streamlit.setFrameHeight() is called exactly once per mount: at   *)
(* most once at any time, and once by the time the mount has settled.      *)
(***************************************************************************)
C10_FrameHeightOnce ==
    /\ frameHeightCalls <= 1
    /\ (Mounted /\ Quiescent) => frameHeightCalls = 1

(***************************************************************************)
(* C11.  Highlight idempotence: applying the highlight updater again with  *)
(* the same borderNodeId to the node set it has just produced yields that  *)
(* node set itself: same ids, order, positions, data and styles.           *)
(* Checked under CallSpec.                                                 *)
(***************************************************************************)
C11_HighlightIdempotent ==
    [][\A nodeId \in HighlightIds :
          addBorderToNodeCall(nodeId, "red")
          => addBorderToNode(nodes', nodeId, "red") = nodes']_vars

\* The highlight has run for b on two nodes that both had a style of two
\* keys: b carries the border, a has lost it, and running it again changes
\* nothing.
C11_Witness ==
    /\ Len(nodes) = 2
    /\ IsSome(nodes[1].style)
    /\ DOMAIN Val(nodes[1].style) = {"background", "border"}
    /\ StyleBorder(nodes[1]) = Undefined
    /\ NonBorderStyle(nodes[2]) = [background |-> "white"]
    /\ StyleBorder(nodes[2]) = BorderStyle("red")
    /\ addBorderToNode(nodes, "b", "red") = nodes

(***************************************************************************)
(* C12.  Position centring with size fallback: for every input node,       *)
(* getLayoutedElements gives the layout engine the measured width, 100     *)
(* without one, and the measured height, 50 without one, each dimension on *)
(* its own, and returns the position (cx - width/2, cy - height/2) for the *)
(* centre (cx, cy) the engine reports, with that same width and height.    *)
(* Checked under CallSpec.                                                 *)
(***************************************************************************)
C12_PositionCentred ==
    [][\A e \in EdgeInputs, direction \in Directions :
          getLayoutedElementsCall(e, direction)
          => LET g      == BuildGraph(nodes, e)
                 layout == DagreLayout(g, direction)
             IN  /\ ~layoutedData'.fault
                 /\ Len(layoutedData'.nodes) = Len(nodes)
                 /\ \A i \in 1..Len(nodes) :
                       LET m      == nodes[i].measured
                           width  == IF IsSome(m) /\ IsSome(Val(m).width)
                                     THEN Val(Val(m).width) ELSE 100
                           height == IF IsSome(m) /\ IsSome(Val(m).height)
                                     THEN Val(Val(m).height) ELSE 50
                           centre == Val(layout[nodes[i].id])
                       IN  /\ Val(g.label[nodes[i].id]) =
                                 [width |-> width, height |-> height]
                           /\ layoutedData'.nodes[i].position =
                                 Pos(centre.x - width \div 2,
                                     centre.y - height \div 2)]_vars

\* A top-to-bottom layout of a (not measured) and b (width 40 measured, no
\* height) with the edges a -> b and x -> b: b, 40 x 50, is centred on
\* (75, 125).
C12_Witness ==
    /\ ~layoutedData.fault
    /\ layoutedData.edges = HostEdges
    /\ Len(layoutedData.nodes) = 2
    /\ layoutedData.nodes[1].measured = None
    /\ layoutedData.nodes[1].position = Pos(0, 0)
    /\ layoutedData.nodes[2].measured = Some([width |-> Some(40), height |-> None])
    /\ layoutedData.nodes[2].position = Pos(75 - 20, 125 - 25)

(***************************************************************************)
(* C13.  getLayoutedElements returns as many nodes as it is given, with    *)
(* the same ids in the same order (none added for a dangling edge          *)
(* endpoint, none dropped) and every field but position unchanged, and     *)
(* returns the edge sequence it is given.                                  *)
(* Checked under CallSpec.                                                 *)
(***************************************************************************)
C13_LayoutPassesThrough ==
    [][\A e \in EdgeInputs, direction \in Directions :
          getLayoutedElementsCall(e, direction)
          => /\ ~layoutedData'.fault
             /\ Len(layoutedData'.nodes) = Len(nodes)
             /\ \A i \in 1..Len(nodes) :
                   /\ layoutedData'.nodes[i].id = nodes[i].id
                   /\ [layoutedData'.nodes[i] EXCEPT !.position = nodes[i].position]
                        = nodes[i]
             /\ layoutedData'.edges = e]_vars

\* A layout of two measured, styled nodes with the edge x -> b from a node
\* that is no input: two nodes come back, moved, with measure and style, and
\* both edges.
C13_Witness ==
    /\ ~layoutedData.fault
    /\ layoutedData.edges = HostEdges
    /\ Len(layoutedData.nodes) = 2
    /\ \A i \in 1..Len(layoutedData.nodes) :
          /\ layoutedData.nodes[i].id = InputIds[i]
          /\ IsSome(layoutedData.nodes[i].measured)
          /\ IsSome(layoutedData.nodes[i].style)
          /\ NonBorderStyle(layoutedData.nodes[i]) = [background |-> "white"]
    /\ Positions(layoutedData.nodes) # <<Pos(5, 9), Pos(5, 9)>>

C15_OnePendingFitView ==
    timers = IF timeoutId = "pending" THEN 1 ELSE 0

\* In a development build the replay of the mount has cancelled the call
\* the first run scheduled, and the effect is due to schedule the next one:
\* nothing is pending in between.
C15_Witness ==
    /\ build = "dev"
    /\ Mounted
    /\ ~replayDue
    /\ frameHeightCalls = 1
    /\ "fitView" \in pending
    /\ timeoutId = "cleared"
    /\ timers = 0

(***************************************************************************)
(* C16.  Highlight re-establishment: whenever the node X the host asks to  *)
(* highlight is in the node set and does not carry the border in the       *)
(* current primaryColor (a push has replaced the node set, or the theme    *)
(* has changed the colour), a state follows in which X carries             *)
(* '2px solid <current primaryColor>', unless the request for X has ended  *)
(* before (the host withdrew it, X left the node set, or the component     *)
(* unmounted).                                                             *)
(* Checked under FairSpec.                                                 *)
(***************************************************************************)
HighlightRequested(X) ==
    /\ Mounted
    /\ args.borderNodeId = Some(X)
    /\ X \in NodeIds

CarriesHighlight(X) ==
    \E i \in 1..Len(nodes) :
        /\ nodes[i].id = X
        /\ StyleBorder(nodes[i]) = HighlightStyle

\* The ids the host can ask for that are a node of some node set.
RequestableNodeIds ==
    {X \in BorderNodeIds :
        \E p \in NodePayloads \cup {initialNodes} :
           \E i \in 1..Len(p) : p[i].id = X}

C16_HighlightReestablished ==
    \A X \in RequestableNodeIds :
        (HighlightRequested(X) /\ ~CarriesHighlight(X))
           ~> (CarriesHighlight(X) \/ ~HighlightRequested(X))

\* The host has pushed nodes whose borders are in the default colour
\* together with the theme colour red and the request for a: the push set
\* the Node state to the pushed nodes, and a carries the red border again.
C16_Witness ==
    /\ Mounted
    /\ Quiescent
    /\ hostPushed
    /\ args.nodes = Some(HostNodesBordered)
    /\ primaryColor(args.theme) = "red"
    /\ HighlightRequested("a")
    /\ CarriesHighlight("a")
    /\ NoneDragged

(***************************************************************************)
(* C17.  The highlight changes only the border entry of the style of each  *)
(* node.  The border effect itself changes neither Node nor Edge state; a  *)
(* render that applies highlight updates and no pushed node set leaves the *)
(* number and order of the nodes and the id, type, position, data,         *)
(* measured size and every other style key of each node as they were; and  *)
(* the Edge state changes only by an update queued for the edges.          *)
(***************************************************************************)
C17_HighlightChangesBorderOnly ==
    [][/\ BorderEffect
          => /\ nodes' = nodes
             /\ edges' = edges
             /\ edgesQueue' = edgesQueue
       /\ (Render /\ ~HasSet(nodesQueue))
          => /\ Len(nodes') = Len(nodes)
             /\ \A i \in 1..Len(nodes) : SameButBorder(nodes[i], nodes'[i])
       /\ (Render /\ edgesQueue = <<>>) => edges' = edges]_vars

\* The highlight of a has been rendered on the pushed nodes a (no style) and
\* b (a white background): a has the border, b the background and an
\* undefined border, everything else and the edges are as pushed.
C17_Witness ==
    /\ Mounted
    /\ Quiescent
    /\ args.nodes = Some(HostNodesPlain)
    /\ args.borderNodeId = Some("a")
    /\ Len(nodes) = 2
    /\ \A i \in 1..Len(nodes) : SameButBorder(nodes[i], HostNodesPlain[i])
    /\ Val(nodes[1].style) = [border |-> HighlightStyle]
    /\ Val(nodes[2].style) = [background |-> "white", border |-> Undefined]
    /\ edges = HostEdges

(***************************************************************************)
(* C18.  While borderNodeId is absent or empty the highlight               *)
(* reconciliation does not modify the Node state: the border effect queues *)
(* nothing, and no step but the render of a pushed node set changes the    *)
(* border of any node.  So the border applied for an earlier borderNodeId  *)
(* stays on its node when the host withdraws the request, and after.       *)
(***************************************************************************)
HighlightWithdrawn ==
    \/ ~IsSome(args.borderNodeId)
    \/ Val(args.borderNodeId) = ""

C18_WithdrawnKeepsBorders ==
    [][/\ (BorderEffect /\ HighlightWithdrawn)
          => /\ nodesQueue' = nodesQueue
             /\ nodes' = nodes
       /\ (/\ Mounted
           /\ phase' = "mounted"
           /\ HighlightWithdrawn \/ HighlightWithdrawn'
           /\ ~HasSet(nodesQueue))
          => /\ Len(nodes') = Len(nodes)
             /\ \A i \in 1..Len(nodes) :
                   /\ nodes'[i].id = nodes[i].id
                   /\ nodes'[i].style = nodes[i].style]_vars

\* The host has withdrawn the request with an empty borderNodeId and has
\* pushed no nodes: the red border of the earlier request is still on its
\* node.
C18_Witness ==
    /\ Mounted
    /\ Quiescent
    /\ hostPushed
    /\ args.borderNodeId = Some("")
    /\ ~IsSome(args.nodes)
    /\ \E i \in 1..Len(nodes) : StyleBorder(nodes[i]) = BorderStyle("red")

====
